---- MODULE Spec2Model ----
(***************************************************************************)
(* A model of src/main.cpp: the STABS listing-line grammar written with    *)
(* PEGTL combinators, the parse-tree selector, PrintParseTree and the      *)
(* driver loop of main().                                                  *)
(*                                                                         *)
(* Text is a sequence of one-character strings.  A cursor is the number of *)
(* characters already consumed (0 .. Len(in)).  A grammar rule is a value  *)
(* (a record tagged by its combinator); Match interprets it.               *)
(***************************************************************************)
EXTENDS Integers, Sequences, FiniteSets, TLC

(***************************************************************************)
(* Character classes of the PEGTL ascii rules used by the grammar.         *)
(***************************************************************************)
DigitChars == {"0", "1", "2", "3", "4", "5", "6", "7", "8", "9"}

LowerChars ==
    {"a", "b", "c", "d", "e", "f", "g", "h", "i", "j", "k", "l", "m",
     "n", "o", "p", "q", "r", "s", "t", "u", "v", "w", "x", "y", "z"}

UpperChars ==
    {"A", "B", "C", "D", "E", "F", "G", "H", "I", "J", "K", "L", "M",
     "N", "O", "P", "Q", "R", "S", "T", "U", "V", "W", "X", "Y", "Z"}

AlphaChars == LowerChars \cup UpperChars

AlnumChars == AlphaChars \cup DigitChars

XdigitChars == DigitChars \cup {"a", "b", "c", "d", "e", "f", "A", "B", "C", "D", "E", "F"}

BlankChars == {" ", "\t"}

(***************************************************************************)
(* Combinators: constructors of rule values.                               *)
(***************************************************************************)
one(S) == [k |-> "one", set |-> S]

any == [k |-> "any"]

string(s) == [k |-> "string", s |-> s]

eof == [k |-> "eof"]

seq(rs) == [k |-> "seq", rs |-> rs]

sor(rs) == [k |-> "sor", rs |-> rs]

opt(r) == [k |-> "opt", r |-> r]

star(r) == [k |-> "star", r |-> r]

plus(r) == [k |-> "plus", r |-> r]

not_at(r) == [k |-> "not_at", r |-> r]

until(r) == [k |-> "until", r |-> r]

must(r) == [k |-> "must", r |-> r]

\* `struct name : body {};` -- a named rule, the unit the parse tree selects.
rule(name, body) == [k |-> "rule", name |-> name, r |-> body]

digit == one(DigitChars)

alnum == one(AlnumChars)

xdigit == one(XdigitChars)

blank == one(BlankChars)

\* tao::pegtl::eol: a line feed, alone or after a carriage return
eol == sor(<<one({"\n"}), string(<<"\r", "\n">>)>>)

\* tao::pegtl::identifier: [a-zA-Z_][a-zA-Z0-9_]*
identifier == seq(<<one(AlphaChars \cup {"_"}), star(one(AlnumChars \cup {"_"}))>>)

(***************************************************************************)
(* The grammar of namespace stabs, rule by rule.                           *)
(***************************************************************************)
\* until_not_at without the `any` that consumes a character.
until_not_at_without_any(RULE) == rule("until_not_at", star(seq(<<not_at(RULE)>>)))

\* Similar to until<R> except that it does not consume R
until_not_at(RULE) == rule("until_not_at", star(seq(<<not_at(RULE), any>>)))

blanks == rule("blanks", star(blank))

digits == rule("digits", seq(<<opt(one({"-"})), plus(digit)>>))

dquote == rule("dquote", one({"\""}))

comma == rule("comma", one({","}))

unquoted_string == rule("unquoted_string", plus(alnum))

sep == rule("sep", seq(<<blanks, comma, blanks>>))

file_path ==
    rule("file_path", star(sor(<<alnum, one({"-"}), one({"_"}), one({"/"}), one({"."})>>)))

\* Primitive type def
type_def_name == rule("type_def_name", plus(seq(<<identifier, blanks>>)))

type_def_id == rule("type_def_id", digits)

type_def_range_def_id == rule("type_def_range_def_id", digits)

type_def_range_lower_bound == rule("type_def_range_lower_bound", digits)

type_def_range_upper_bound == rule("type_def_range_upper_bound", digits)

\* type_def_range with its two bounds the other way round.
type_def_range_bounds_swapped ==
    rule("type_def_range",
         seq(<<one({"="}), one({"r", "R"}), type_def_range_def_id, one({";"}),
               type_def_range_upper_bound, one({";"}), type_def_range_lower_bound,
               one({";"})>>))

type_def_range ==
    rule("type_def_range",
         seq(<<one({"="}), one({"r", "R"}), type_def_range_def_id, one({";"}),
               type_def_range_lower_bound, one({";"}), type_def_range_upper_bound,
               one({";"})>>))

type_def ==
    rule("type_def",
         seq(<<type_def_name, one({":"}), one({"t"}), type_def_id, opt(type_def_range)>>))

\* Variable decl and pointer def
pointer_def_id == rule("pointer_def_id", digits)

pointer_ref_id == rule("pointer_ref_id", digits)

pointer_def ==
    rule("pointer_def", seq(<<pointer_def_id, one({"="}), one({"*"}), pointer_ref_id>>))

type_ref_id == rule("type_ref_id", digits)

\* type_ref with the bare id tried before the pointer def.
type_ref_id_first == rule("type_ref", sor(<<type_ref_id, pointer_def>>))

type_ref == rule("type_ref", sor(<<pointer_def, type_ref_id>>))

variable_name == rule("variable_name", identifier)

variable == rule("variable", seq(<<variable_name, one({":"}), type_ref>>))

\* Range of the array type num: =r26;0;-1;
array_subrange ==
    rule("array_subrange",
         seq(<<string(<<"=", "r">>), digits, one({";"}), digits, one({";"}), digits,
               one({";"})>>))

array_name == rule("array_name", identifier)

array_type_id == rule("array_type_id", digits)

array_max_index == rule("array_max_index", digits)

\* array_type with array_max_index put on the lower bound instead of the upper one.
array_type_max_on_lower ==
    rule("array_type",
         seq(<<array_type_id, string(<<"=", "a", "r">>), digits, opt(array_subrange),
               one({";"}), array_max_index, one({";"}), digits, one({";"})>>))

array_type ==
    rule("array_type",
         seq(<<array_type_id, string(<<"=", "a", "r">>), digits, opt(array_subrange),
               one({";"}), digits, one({";"}), array_max_index, one({";"})>>))

terminal_array_type == rule("terminal_array_type", seq(<<type_ref>>))

array == rule("array", seq(<<array_name, one({":"}), plus(array_type), terminal_array_type>>))

\* Enum type definitions
enum_name == rule("enum_name", identifier)

enum_id == rule("enum_id", digits)

enum_value_id == rule("enum_value_id", identifier)

enum_value_num == rule("enum_value_num", digits)

enum_value == rule("enum_value", seq(<<enum_value_id, one({":"}), enum_value_num, comma>>))

enum_ ==
    rule("enum_",
         seq(<<enum_name, one({":"}), one({"t"}), enum_id, one({"="}), plus(enum_value),
               one({";"})>>))

\* Struct/class type definitions
struct_name == rule("struct_name", identifier)

struct_id == rule("struct_id", digits)

struct_byte_size == rule("struct_byte_size", digits)

struct_member_name == rule("struct_member_name", identifier)

struct_member_bit_offset == rule("struct_member_bit_offset", digits)

struct_member_bit_size == rule("struct_member_bit_size", digits)

struct_member ==
    rule("struct_member",
         seq(<<struct_member_name, one({":"}), type_ref, comma, struct_member_bit_offset,
               comma, struct_member_bit_size, one({";"})>>))

struct_ ==
    rule("struct_",
         seq(<<struct_name, one({":"}), one({"T"}), struct_id, one({"="}), one({"s"}),
               struct_byte_size, star(struct_member), one({";"})>>))

lsym == rule("lsym", sor(<<struct_, array, enum_, type_def, variable>>))

include_file == rule("include_file", file_path)

DEFAULT_PARAM_VALUE_RULE == until_not_at(eol)

DEFAULT_PARAM_STRING_RULE == until_not_at(dquote)

param_string(RULE) == rule("param_string", seq(<<dquote, RULE, dquote>>))

DEFAULT_PARAM_TYPE_RULE == until_not_at(comma)

param_type(RULE) == rule("param_type", seq(<<RULE>>))

DEFAULT_PARAM_OTHER_RULE == until_not_at(comma)

\* The template argument is not used: param_other is digits.
param_other(RULE) == rule("param_other", digits)

DEFAULT_PARAM_DESC_RULE == until_not_at(comma)

param_desc(RULE) == rule("param_desc", seq(<<RULE>>))

\* The template argument is not used: param_value is unquoted_string.
param_value(RULE) == rule("param_value", unquoted_string)

str_stabs == rule("str_stabs", string(<<".", "s", "t", "a", "b", "s">>))

str_stabd == rule("str_stabd", string(<<".", "s", "t", "a", "b", "d">>))

stabs_directive_prefix == rule("stabs_directive_prefix", seq(<<until(str_stabs), blanks>>))

stabd_directive_prefix == rule("stabd_directive_prefix", seq(<<until(str_stabd), blanks>>))

\* Captures: 1:string, 2:type, 3:other, 4:desc, 5:value
stabs_directive_for(STRING_RULE, TYPE_RULE, OTHER_RULE, DESC_RULE, VALUE_RULE) ==
    rule("stabs_directive_for",
         seq(<<stabs_directive_prefix, param_string(STRING_RULE), sep, param_type(TYPE_RULE),
               sep, param_other(OTHER_RULE), sep, param_desc(DESC_RULE), sep,
               param_value(VALUE_RULE)>>))

\* Captures: 1:type, 2:other, 3:desc
stabd_directive_for(TYPE_RULE, OTHER_RULE, DESC_RULE) ==
    rule("stabd_directive_for",
         seq(<<stabd_directive_prefix, param_type(TYPE_RULE), sep, param_other(OTHER_RULE),
               sep, param_desc(DESC_RULE)>>))

\* stabs_directive_lsym with the record type of the include-file directive.
stabs_directive_lsym_132 ==
    rule("stabs_directive_lsym",
         stabs_directive_for(lsym, string(<<"1", "3", "2">>), DEFAULT_PARAM_OTHER_RULE,
                             DEFAULT_PARAM_DESC_RULE, DEFAULT_PARAM_VALUE_RULE))

\* N_LSYM = 128
stabs_directive_lsym ==
    rule("stabs_directive_lsym",
         stabs_directive_for(lsym, string(<<"1", "2", "8">>), DEFAULT_PARAM_OTHER_RULE,
                             DEFAULT_PARAM_DESC_RULE, DEFAULT_PARAM_VALUE_RULE))

\* N_SOL = 132
stabs_directive_include_file ==
    rule("stabs_directive_include_file",
         stabs_directive_for(include_file, string(<<"1", "3", "2">>),
                             DEFAULT_PARAM_OTHER_RULE, DEFAULT_PARAM_DESC_RULE,
                             DEFAULT_PARAM_VALUE_RULE))

stabs_directive ==
    rule("stabs_directive", sor(<<stabs_directive_lsym, stabs_directive_include_file>>))

\* N_SLINE = 68
source_current_line == rule("source_current_line", digits)

stabd_directive_line ==
    rule("stabd_directive_line",
         stabd_directive_for(string(<<"6", "8">>), DEFAULT_PARAM_OTHER_RULE,
                             source_current_line))

stabd_directive == rule("stabd_directive", sor(<<stabd_directive_line>>))

\* Instruction line:   072B AE E4         [ 5]  126 	ldx	,s	; tmp33, dest
instr_address == rule("instr_address", seq(<<xdigit, xdigit, xdigit, xdigit>>))

instruction ==
    rule("instruction",
         seq(<<blanks, instr_address, until(one({"["})), any, any, one({"]"}), star(any)>>))

\* Label line:   086C                     354 Lscope3:
label_address == rule("label_address", seq(<<xdigit, xdigit, xdigit, xdigit>>))

label_name == rule("label_name", identifier)

label ==
    rule("label",
         seq(<<blanks, label_address, blanks, plus(digits), blanks, label_name, one({":"})>>))

\* grammar with the two directives tried before the listing-line shapes.
grammar_directives_first ==
    rule("grammar",
         must(seq(<<sor(<<stabs_directive, stabd_directive, instruction, label>>), eof>>)))

grammar ==
    rule("grammar",
         must(seq(<<sor(<<instruction, label, stabs_directive, stabd_directive>>), eof>>)))

\* selector without type_def.
selector_without_type_def ==
    {"stabd_directive", "stabs_directive",
     "array", "array_name", "array_type_id", "array_max_index",
     "type_def_name", "type_def_id", "type_def_range_lower_bound",
     "type_def_range_upper_bound",
     "variable", "type_ref", "variable_name", "type_ref_id", "pointer_def",
     "pointer_def_id", "pointer_ref_id",
     "enum_", "enum_name", "enum_id", "enum_value_id", "enum_value_num",
     "struct_", "struct_name", "struct_id", "struct_byte_size", "struct_member_name",
     "struct_member_bit_offset", "struct_member_bit_size", "struct_member",
     "instruction", "instr_address",
     "label", "label_address", "label_name",
     "include_file",
     "source_current_line"}

\* Types selected in for parse tree
selector ==
    {"stabd_directive", "stabs_directive",
     "array", "array_name", "array_type_id", "array_max_index",
     "type_def", "type_def_name", "type_def_id", "type_def_range_lower_bound",
     "type_def_range_upper_bound",
     "variable", "type_ref", "variable_name", "type_ref_id", "pointer_def",
     "pointer_def_id", "pointer_ref_id",
     "enum_", "enum_name", "enum_id", "enum_value_id", "enum_value_num",
     "struct_", "struct_name", "struct_id", "struct_byte_size", "struct_member_name",
     "struct_member_bit_offset", "struct_member_bit_size", "struct_member",
     "instruction", "instr_address",
     "label", "label_address", "label_name",
     "include_file",
     "source_current_line"}

(***************************************************************************)
(* The matcher.  A result is [st, pos, nodes]:                             *)
(*   st = "ok"     the rule matched, the cursor is at pos, nodes are the   *)
(*                 parse-tree nodes the match produced;                    *)
(*   st = "fail"   local failure: the caller's cursor is untouched and no  *)
(*                 node of the attempt is kept;                            *)
(*   st = "error"  must<> turned a local failure into a parse_error, which *)
(*                 unwinds through every enclosing rule;                   *)
(*   st = "hang"   a repetition's body succeeded without consuming, so the *)
(*                 `while (match) {}` loop of star/plus never ends.        *)
(***************************************************************************)
Ok(p, ns) == [st |-> "ok", pos |-> p, nodes |-> ns]

LocalFailure == [st |-> "fail", pos |-> 0, nodes |-> <<>>]

GlobalFailure == [st |-> "error", pos |-> 0, nodes |-> <<>>]

Diverges == [st |-> "hang", pos |-> 0, nodes |-> <<>>]

\* parse_tree::node with content: the rule's name and the span [b, e) it matched.
Node(name, b, e, children) ==
    [type |-> name, has_content |-> TRUE, b |-> b, e |-> e, children |-> children]

\* The root made by parse_tree::parse: no type, no content.
RootNode(children) ==
    [type |-> "", has_content |-> FALSE, b |-> 0, e |-> 0, children |-> children]

RECURSIVE Match(_, _, _)
RECURSIVE MatchSeq(_, _, _, _, _)
RECURSIVE MatchSor(_, _, _, _)
RECURSIVE MatchStar(_, _, _, _)
RECURSIVE MatchUntil(_, _, _)

\* seq<Rules...>: each in order from where the previous one stopped; the first
\* that does not match ends the attempt.
MatchSeq(rs, i, in, p, acc) ==
    IF i > Len(rs)
    THEN Ok(p, acc)
    ELSE LET m == Match(rs[i], in, p)
         IN  IF m.st = "ok" THEN MatchSeq(rs, i + 1, in, m.pos, acc \o m.nodes) ELSE m

\* sor<Rules...>: each in order at the same cursor; the first success is the result.
MatchSor(rs, i, in, p) ==
    IF i > Len(rs)
    THEN LocalFailure
    ELSE LET m == Match(rs[i], in, p)
         IN  IF m.st = "fail" THEN MatchSor(rs, i + 1, in, p) ELSE m

\* star<R>: while (R matches) {}
MatchStar(r, in, p, acc) ==
    LET m == Match(r, in, p)
    IN  CASE m.st = "fail" -> Ok(p, acc)
          [] m.st = "ok" /\ m.pos = p -> Diverges
          [] m.st = "ok" -> MatchStar(r, in, m.pos, acc \o m.nodes)
          [] OTHER -> m

\* until<Cond>: while (!Cond matches) { if (in.empty()) return false; in.bump(); }
MatchUntil(r, in, p) ==
    LET m == Match(r, in, p)
    IN  CASE m.st = "fail" -> IF p >= Len(in) THEN LocalFailure ELSE MatchUntil(r, in, p + 1)
          [] OTHER -> m

Match(r, in, p) ==
    CASE r.k = "one" ->
           IF p < Len(in) /\ in[p + 1] \in r.set THEN Ok(p + 1, <<>>) ELSE LocalFailure
      [] r.k = "any" -> IF p < Len(in) THEN Ok(p + 1, <<>>) ELSE LocalFailure
      [] r.k = "string" ->
           IF p + Len(r.s) <= Len(in) /\ SubSeq(in, p + 1, p + Len(r.s)) = r.s
           THEN Ok(p + Len(r.s), <<>>)
           ELSE LocalFailure
      [] r.k = "eof" -> IF p = Len(in) THEN Ok(p, <<>>) ELSE LocalFailure
      [] r.k = "seq" -> MatchSeq(r.rs, 1, in, p, <<>>)
      [] r.k = "sor" -> MatchSor(r.rs, 1, in, p)
      [] r.k = "opt" ->
           LET m == Match(r.r, in, p) IN IF m.st = "fail" THEN Ok(p, <<>>) ELSE m
      [] r.k = "star" -> MatchStar(r.r, in, p, <<>>)
      [] r.k = "plus" ->
           LET m == Match(r.r, in, p)
           IN  IF m.st = "ok" THEN MatchStar(r.r, in, m.pos, m.nodes) ELSE m
      [] r.k = "not_at" ->
           LET m == Match(r.r, in, p)
           IN  CASE m.st = "ok" -> LocalFailure
                 [] m.st = "fail" -> Ok(p, <<>>)
                 [] OTHER -> m
      [] r.k = "until" -> MatchUntil(r.r, in, p)
      [] r.k = "must" ->
           LET m == Match(r.r, in, p) IN IF m.st = "fail" THEN GlobalFailure ELSE m
      [] r.k = "rule" ->
           \* parse_tree control: a selected rule keeps a node over its children;
           \* a rule that is not selected hands its children to its parent.
           LET m == Match(r.r, in, p)
           IN  IF m.st = "ok" /\ r.name \in selector
               THEN Ok(m.pos, <<Node(r.name, p, m.pos, m.nodes)>>)
               ELSE m

(***************************************************************************)
(* std::to_string(int) and the file's stoi helper.                         *)
(***************************************************************************)
INT_MAX == 2147483647

DigitOf == [c \in DigitChars |->
              CASE c = "0" -> 0 [] c = "1" -> 1 [] c = "2" -> 2 [] c = "3" -> 3 [] c = "4" -> 4
                [] c = "5" -> 5 [] c = "6" -> 6 [] c = "7" -> 7 [] c = "8" -> 8 [] c = "9" -> 9]

CharOf == <<"0", "1", "2", "3", "4", "5", "6", "7", "8", "9">>

RECURSIVE NatToString(_)
NatToString(n) == IF n < 10 THEN <<CharOf[n + 1]>> ELSE NatToString(n \div 10) \o <<CharOf[(n % 10) + 1]>>

INT_MIN == -2147483647 - 1

to_string(n) ==
    CASE n = INT_MIN -> <<"-", "2", "1", "4", "7", "4", "8", "3", "6", "4", "8">>
      [] n < 0 -> <<"-">> \o NatToString(-n)
      [] OTHER -> NatToString(n)

\* The magnitude of a digit string, or -1 once it no longer fits an int.
RECURSIVE Magnitude(_, _, _)
Magnitude(sv, i, acc) ==
    IF i > Len(sv) THEN acc
    ELSE LET d == DigitOf[sv[i]]
         IN  IF acc > (INT_MAX - d) \div 10 THEN -1 ELSE Magnitude(sv, i + 1, acc * 10 + d)

\* A digit string without its leading zeros.
RECURSIVE StripZeros(_)
StripZeros(ds) == IF Len(ds) > 1 /\ ds[1] = "0" THEN StripZeros(Tail(ds)) ELSE ds

\* stoi(std::string{sv}) on a digits lexeme: the value, or out_of_range thrown.
stoi(sv) ==
    LET neg == Len(sv) > 0 /\ sv[1] = "-"
        mag == Magnitude(sv, IF neg THEN 2 ELSE 1, 0)
    IN  CASE mag >= 0 -> [thrown |-> FALSE, value |-> IF neg THEN -mag ELSE mag]
          [] neg /\ StripZeros(Tail(sv)) = <<"2", "1", "4", "7", "4", "8", "3", "6", "4", "8">> ->
               [thrown |-> FALSE, value |-> INT_MIN]
          [] OTHER -> [thrown |-> TRUE, value |-> 0]

(***************************************************************************)
(* The lines the driver is run on: main()'s `source` vector, its entries   *)
(* (live and commented out), variations of their fields, and lines that    *)
(* are not directives.                                                     *)
(***************************************************************************)
\* The most array dimensions, enum values and struct members of a generated payload.
MaxDims == 2

MaxMembers == 2

\* The most lines in `source`.
MaxLines == 2

StabsToken == <<".", "s", "t", "a", "b", "s", "\t">>

DQ == <<"\"">>

\* One array dimension record, e.g. 25=ar26=r26;0;-1;;0;9; (the first) or 26=ar26;0;10;
ArrayDimText(i) ==
    to_string(24 + i) \o <<"=", "a", "r", "2", "6">> \o
    (IF i = 1 THEN <<"=", "r", "2", "6", ";", "0", ";", "-", "1", ";">> ELSE <<>>) \o
    <<";", "0", ";">> \o to_string(8 + i) \o <<";">>

RECURSIVE ArrayDimsText(_, _)
ArrayDimsText(i, n) == IF i > n THEN <<>> ELSE ArrayDimText(i) \o ArrayDimsText(i + 1, n)

\* c:25=ar26=r26;0;-1;;0;9;26=ar26;0;10;7   and   pi:25=ar26=r26;0;-1;;0;9;30=*7
ArrayPayloads ==
    {<<"c", ":">> \o ArrayDimsText(1, n) \o term :
        n \in 1..MaxDims, term \in {<<"7">>, <<"3", "0", "=", "*", "7">>}}

\* One enum value, e.g. V1:-1,
EnumValueText(i) == <<"V">> \o to_string(i) \o <<":">> \o to_string(i - 2) \o <<",">>

RECURSIVE EnumValuesText(_, _)
EnumValuesText(i, n) == IF i > n THEN <<>> ELSE EnumValueText(i) \o EnumValuesText(i + 1, n)

\* bool:t22=eV1:-1,V2:0,;
EnumPayloads ==
    {<<"b", "o", "o", "l", ":", "t", "2", "2", "=", "e">> \o EnumValuesText(1, n) \o <<";">> : n \in 1..MaxMembers}

\* One struct member, e.g. m1:7,8,8;  (the second one's type is a pointer def: m2:28=*7,16,8;)
StructMemberText(i) ==
    <<"m">> \o to_string(i) \o <<":">> \o (IF i = 2 THEN <<"2", "8", "=", "*", "7">> ELSE <<"7">>) \o
    <<",">> \o to_string(8 * i) \o <<",", "8", ";">>

RECURSIVE StructMembersText(_, _)
StructMembersText(i, n) ==
    IF i > n THEN <<>> ELSE StructMemberText(i) \o StructMembersText(i + 1, n)

\* Foo:T26=s4m1:7,8,8;m2:28=*7,16,8;;
StructPayloads ==
    {<<"F", "o", "o", ":", "T", "2", "6", "=", "s", "4">> \o StructMembersText(1, n) \o <<";">> : n \in 0..MaxMembers}

\* Type definitions, with and without a range.
TypeDefPayloads ==
    {\* int:t7
     <<"i", "n", "t", ":", "t", "7">>,
     \* char:t13=r13;0;255;
     <<"c", "h", "a", "r", ":", "t", "1", "3", "=", "r", "1", "3", ";", "0", ";", "2", "5", "5", ";">>,
     \* long double:t3=R3;8;0;
     <<"l", "o", "n", "g", " ", "d", "o", "u", "b", "l", "e", ":", "t", "3", "=", "R", "3", ";", "8", ";", "0", ";">>,
     \* s:t2=r2;-128;127;
     <<"s", ":", "t", "2", "=", "r", "2", ";", "-", "1", "2", "8", ";", "1", "2", "7", ";">>,
     \* z:t1=r01;-0;007;
     <<"z", ":", "t", "1", "=", "r", "0", "1", ";", "-", "0", ";", "0", "0", "7", ";">>,
     \* h:t4=r4;0;99999999999;
     <<"h", ":", "t", "4", "=", "r", "4", ";", "0", ";", "9", "9", "9", "9", "9", "9", "9", "9", "9", "9", "9", ";">>}

\* Variable declarations: a bare type id and a pointer def.
VariablePayloads ==
    {\* a:7
     <<"a", ":", "7">>,
     \* p:25=*7
     <<"p", ":", "2", "5", "=", "*", "7">>}

\* Payloads no lsym alternative matches in full.
BrokenPayloads ==
    {\* a:7x
     <<"a", ":", "7", "x">>,
     \* a:t7=r7;0;
     <<"a", ":", "t", "7", "=", "r", "7", ";", "0", ";">>,
     \* p:25=*
     <<"p", ":", "2", "5", "=", "*">>,
     \* b:t2=e
     <<"b", ":", "t", "2", "=", "e">>,
     \* B:T5=s3x:7,0;;
     <<"B", ":", "T", "5", "=", "s", "3", "x", ":", "7", ",", "0", ";", ";">>,
     \* c:25=ar26;0;9;
     <<"c", ":", "2", "5", "=", "a", "r", "2", "6", ";", "0", ";", "9", ";">>,
     \* a:
     <<"a", ":">>,
     \* 7:a
     <<"7", ":", "a">>}

\* Include-file paths.
PathPayloads ==
    {\* src/vectrexy.h
     <<"s", "r", "c", "/", "v", "e", "c", "t", "r", "e", "x", "y", ".", "h">>,
     \* 
     <<>>}

Payloads ==
    StructPayloads \cup ArrayPayloads \cup EnumPayloads \cup TypeDefPayloads \cup
    VariablePayloads \cup BrokenPayloads \cup PathPayloads

\* What the listing puts before the directive.
Prefixes ==
    {\* 
     <<>>,
     \*  31 ;\t
     <<" ", "3", "1", " ", ";", "\t">>}

\* The fields after the quoted string.
Tails ==
    {\* ,128,0,0,0
     <<",", "1", "2", "8", ",", "0", ",", "0", ",", "0">>,
     \*  ,\t128 , 0,0 ,Ltext2
     <<" ", ",", "\t", "1", "2", "8", " ", ",", " ", "0", ",", "0", " ", ",", "L", "t", "e", "x", "t", "2">>,
     \* ,132,0,0,0
     <<",", "1", "3", "2", ",", "0", ",", "0", ",", "0">>,
     \* ,128,0,x y,0
     <<",", "1", "2", "8", ",", "0", ",", "x", " ", "y", ",", "0">>,
     \* ,128,0,,0
     <<",", "1", "2", "8", ",", "0", ",", ",", "0">>,
     \* ,128,0,0
     <<",", "1", "2", "8", ",", "0", ",", "0">>,
     \* ,128,0,0,0,1
     <<",", "1", "2", "8", ",", "0", ",", "0", ",", "0", ",", "1">>,
     \* ,128,x,0,0
     <<",", "1", "2", "8", ",", "x", ",", "0", ",", "0">>,
     \* ,68,0,0,0
     <<",", "6", "8", ",", "0", ",", "0", ",", "0">>}

StabsLines == {pre \o StabsToken \o DQ \o pl \o DQ \o tl : pre \in Prefixes, pl \in Payloads, tl \in Tails}

\* .stabd lines.
StabdLines ==
    {\* .stabd\t68, 0, 61
     <<".", "s", "t", "a", "b", "d", "\t", "6", "8", ",", " ", "0", ",", " ", "6", "1">>,
     \*  206 ;    .stabd 68,0,61
     <<" ", "2", "0", "6", " ", ";", " ", " ", " ", " ", ".", "s", "t", "a", "b", "d", " ", "6", "8", ",", "0", ",", "6", "1">>,
     \* .stabd 68 ,-1 ,007
     <<".", "s", "t", "a", "b", "d", " ", "6", "8", " ", ",", "-", "1", " ", ",", "0", "0", "7">>,
     \* .stabd 67,0,61
     <<".", "s", "t", "a", "b", "d", " ", "6", "7", ",", "0", ",", "6", "1">>,
     \* .stabd 68,0
     <<".", "s", "t", "a", "b", "d", " ", "6", "8", ",", "0">>,
     \* .stabd 68,0,61,5
     <<".", "s", "t", "a", "b", "d", " ", "6", "8", ",", "0", ",", "6", "1", ",", "5">>,
     \* .stabd 68,x,61
     <<".", "s", "t", "a", "b", "d", " ", "6", "8", ",", "x", ",", "6", "1">>,
     \* .stabd 68,0,x
     <<".", "s", "t", "a", "b", "d", " ", "6", "8", ",", "0", ",", "x">>,
     \* .stabd "a:7",68,0,61
     <<".", "s", "t", "a", "b", "d", " ", "\"", "a", ":", "7", "\"", ",", "6", "8", ",", "0", ",", "6", "1">>,
     \* .stabd68,0,1
     <<".", "s", "t", "a", "b", "d", "6", "8", ",", "0", ",", "1">>}

\* Instruction and label lines, and near misses.
ListingLines ==
    {\*  0095 C6 [ 2] 73 ldb
     <<" ", "0", "0", "9", "5", " ", "C", "6", " ", "[", " ", "2", "]", " ", "7", "3", " ", "l", "d", "b">>,
     \* 072B AE[ 5]
     <<"0", "7", "2", "B", " ", "A", "E", "[", " ", "5", "]">>,
     \*  0098  77 Lscope1:
     <<" ", "0", "0", "9", "8", " ", " ", "7", "7", " ", "L", "s", "c", "o", "p", "e", "1", ":">>,
     \* 086C 354 12 L_1:
     <<"0", "8", "6", "C", " ", "3", "5", "4", " ", "1", "2", " ", "L", "_", "1", ":">>,
     \* 0095 C6 2A
     <<"0", "0", "9", "5", " ", "C", "6", " ", "2", "A">>,
     \*  0098 77 Lscope1
     <<" ", "0", "0", "9", "8", " ", "7", "7", " ", "L", "s", "c", "o", "p", "e", "1">>,
     \* 009 [ 2]
     <<"0", "0", "9", " ", "[", " ", "2", "]">>,
     \* 0098 x:
     <<"0", "0", "9", "8", " ", "x", ":">>}

\* Lines on which more than one top-level alternative could start.
MixedLines ==
    {\* 00ab[xx].stabs "a:7",128,0,0,0
     <<"0", "0", "a", "b", "[", "x", "x", "]", ".", "s", "t", "a", "b", "s", " ", "\"", "a", ":", "7", "\"", ",", "1", "2", "8", ",", "0", ",", "0", ",", "0">>,
     \* 00ab 1 x:.stabs "a:7",128,0,0,0
     <<"0", "0", "a", "b", " ", "1", " ", "x", ":", ".", "s", "t", "a", "b", "s", " ", "\"", "a", ":", "7", "\"", ",", "1", "2", "8", ",", "0", ",", "0", ",", "0">>,
     \* 00ab 1 x:.stabd 68,0,61
     <<"0", "0", "a", "b", " ", "1", " ", "x", ":", ".", "s", "t", "a", "b", "d", " ", "6", "8", ",", "0", ",", "6", "1">>,
     \* 00ab[.stabd 68,0]1
     <<"0", "0", "a", "b", "[", ".", "s", "t", "a", "b", "d", " ", "6", "8", ",", "0", "]", "1">>,
     \* .stabs "a:7",128,0,0,0 .stabd 68,0,61
     <<".", "s", "t", "a", "b", "s", " ", "\"", "a", ":", "7", "\"", ",", "1", "2", "8", ",", "0", ",", "0", ",", "0", " ", ".", "s", "t", "a", "b", "d", " ", "6", "8", ",", "0", ",", "6", "1">>,
     \* .stabd .stabs "a:7",128,0,0,0
     <<".", "s", "t", "a", "b", "d", " ", ".", "s", "t", "a", "b", "s", " ", "\"", "a", ":", "7", "\"", ",", "1", "2", "8", ",", "0", ",", "0", ",", "0">>,
     \* .stabs "a:7",128,0,0,0 .stabs "b:7",128,0,0,0
     <<".", "s", "t", "a", "b", "s", " ", "\"", "a", ":", "7", "\"", ",", "1", "2", "8", ",", "0", ",", "0", ",", "0", " ", ".", "s", "t", "a", "b", "s", " ", "\"", "b", ":", "7", "\"", ",", "1", "2", "8", ",", "0", ",", "0", ",", "0">>}

\* Lines that are no directive.
OtherLines ==
    {\* 
     <<>>,
     \* hello
     <<"h", "e", "l", "l", "o">>,
     \* .stab
     <<".", "s", "t", "a", "b">>,
     \* .stabs
     <<".", "s", "t", "a", "b", "s">>,
     \* .stabs "a:7,128,0,0,0
     <<".", "s", "t", "a", "b", "s", " ", "\"", "a", ":", "7", ",", "1", "2", "8", ",", "0", ",", "0", ",", "0">>,
     \* .stabs a:7",128,0,0,0
     <<".", "s", "t", "a", "b", "s", " ", "a", ":", "7", "\"", ",", "1", "2", "8", ",", "0", ",", "0", ",", "0">>,
     \* .stabs "a:7"128,0,0,0
     <<".", "s", "t", "a", "b", "s", " ", "\"", "a", ":", "7", "\"", "1", "2", "8", ",", "0", ",", "0", ",", "0">>,
     \* .stabs "a:7",128,0,0,0 
     <<".", "s", "t", "a", "b", "s", " ", "\"", "a", ":", "7", "\"", ",", "1", "2", "8", ",", "0", ",", "0", ",", "0", " ">>,
     \* .stabs"a:7",128,0,0,0
     <<".", "s", "t", "a", "b", "s", "\"", "a", ":", "7", "\"", ",", "1", "2", "8", ",", "0", ",", "0", ",", "0">>,
     \* .STABS "a:7",128,0,0,0
     <<".", "S", "T", "A", "B", "S", " ", "\"", "a", ":", "7", "\"", ",", "1", "2", "8", ",", "0", ",", "0", ",", "0">>}

\* The two entries of `source` that are not commented out.
SourceLines ==
    {\* 204 ;\t.stabs\t"src/vectrexy.h",132,0,0,Ltext2   (after 28 blanks)
     <<" ", " ", " ", " ", " ", " ", " ", " ", " ", " ", " ", " ", " ", " ", " ",
       " ", " ", " ", " ", " ", " ", " ", " ", " ", " ", " ", " ", " ", "2", "0",
       "4", " ", ";", "\t", ".", "s", "t", "a", "b", "s", "\t", "\"", "s", "r", "c",
       "/", "v", "e", "c", "t", "r", "e", "x", "y", ".", "h", "\"", ",", "1", "3",
       "2", ",", "0", ",", "0", ",", "L", "t", "e", "x", "t", "2">>,
     \* 206 ;    .stabd\t68, 0, 61   (after 28 blanks)
     <<" ", " ", " ", " ", " ", " ", " ", " ", " ", " ", " ", " ", " ", " ", " ",
       " ", " ", " ", " ", " ", " ", " ", " ", " ", " ", " ", " ", " ", "2", "0",
       "6", " ", ";", " ", " ", " ", " ", ".", "s", "t", "a", "b", "d", "\t", "6",
       "8", ",", " ", "0", ",", " ", "6", "1">>}

Lines == SourceLines \cup StabsLines \cup StabdLines \cup ListingLines \cup MixedLines \cup OtherLines

(***************************************************************************)
(* PrintParseTree: what it writes to std::cout, one element per `<<`       *)
(* (the matched text character by character).                              *)
(***************************************************************************)
\* The backtick character, which a TLA+ string cannot hold.
Backtick == "BACKTICK"

\* Two spaces for each level of depth.
RECURSIVE SpacesTwoPerLevel(_)
SpacesTwoPerLevel(depth) ==
    IF depth <= 0 THEN <<>> ELSE <<" ", " ">> \o SpacesTwoPerLevel(depth - 1)

RECURSIVE Spaces(_)
Spaces(depth) == IF depth <= 0 THEN <<>> ELSE <<" ">> \o Spaces(depth - 1)

RECURSIVE PrintNode(_, _, _)
RECURSIVE PrintChildren(_, _, _, _)

\* The lambda f of PrintParseTree.
PrintNode(in, node, depth) ==
    Spaces(depth) \o <<node.type, ": ", Backtick>> \o SubSeq(in, node.b + 1, node.e)
    \o <<Backtick, "\n">>
    \o PrintChildren(in, node.children, 1, depth + 1)

PrintChildren(in, cs, i, depth) ==
    IF i > Len(cs) THEN <<>>
    ELSE PrintNode(in, cs[i], depth) \o PrintChildren(in, cs, i + 1, depth)

PrintParseTree(in, node) == PrintChildren(in, node.children, 1, 0) \o <<"\n">>

(***************************************************************************)
(* main(): the loop over `source`.                                         *)
(***************************************************************************)
VARIABLES
    pc,     \* "loop" | "parse" | "print" | "done" | "terminated" | "hung"
    i,      \* how many lines of `source` the loop has taken
    line,   \* the line `in` holds
    root,   \* what parse_tree::parse returned for it (NoTree: nothing yet)
    out     \* what PrintParseTree wrote for it

vars == <<pc, i, line, root, out>>

NoTree == RootNode(<<>>)

\* parse_tree::parse<grammar, Node, selector>(in)
Parse(in) == Match(grammar, in, 0)

Init ==
    /\ pc = "loop"
    /\ i = 0
    /\ line = <<>>
    /\ root = NoTree
    /\ out = <<>>

\* for (auto s : source) { pegtl::string_input in(s, ...);
NextLine ==
    /\ pc = "loop"
    /\ i < MaxLines
    /\ \E s \in Lines : line' = s
    /\ i' = i + 1
    /\ root' = NoTree
    /\ out' = <<>>
    /\ pc' = "parse"

\* if (const auto root = parse_tree::parse<...>(in)).  The parse_error that must<>
\* raises is caught nowhere: the program ends in std::terminate.
ParseLine ==
    /\ pc = "parse"
    /\ LET m == Parse(line)
       IN  /\ root' = IF m.st = "ok" THEN RootNode(m.nodes) ELSE NoTree
           /\ pc' = CASE m.st = "ok" -> "print"
                      [] m.st = "fail" -> "loop"
                      [] m.st = "error" -> "terminated"
                      [] OTHER -> "hung"
    /\ UNCHANGED <<i, line, out>>

\* stabs::PrintParseTree(*root);
PrintLine ==
    /\ pc = "print"
    /\ out' = PrintParseTree(line, root)
    /\ pc' = "loop"
    /\ UNCHANGED <<i, line, root>>

\* The loop has been through all of `source`: main returns.
Return ==
    /\ pc = "loop"
    /\ pc' = "done"
    /\ UNCHANGED <<i, line, root, out>>

Next == NextLine \/ ParseLine \/ PrintLine \/ Return

Spec == Init /\ [][Next]_vars

(***************************************************************************)
(* Vocabulary of the properties.                                           *)
(***************************************************************************)
\* Rule r matches text s from its start (not necessarily all of it).
StartsWith(r, s) == Match(r, s, 0).st = "ok"

\* Rule r matches text s from its start through its end.
FullMatch(r, s) == LET m == Match(r, s, 0) IN m.st = "ok" /\ m.pos = Len(s)

\* The line in `line` has been parsed: accepted (its tree is in root) or rejected.
AcceptedLine == pc = "print"

RejectedLine == pc = "terminated"

ParsedLine == AcceptedLine \/ RejectedLine

\* The accepted line's tree has the single child of type `kind` under the root.
ClassifiedAs(kind) ==
    AcceptedLine /\ Len(root.children) = 1 /\ root.children[1].type = kind

\* The index of the first rule of rs that matches s from its start; 0: none does.
FirstStarting(rs, s) ==
    IF \E k \in 1..Len(rs) : StartsWith(rs[k], s)
    THEN CHOOSE k \in 1..Len(rs) :
             StartsWith(rs[k], s) /\ \A j \in 1..(k - 1) : ~StartsWith(rs[j], s)
    ELSE 0

\* The least index >= k at which s holds character c; 0: there is none.
IndexFrom(s, c, k) ==
    IF \E n \in k..Len(s) : s[n] = c
    THEN CHOOSE n \in k..Len(s) : s[n] = c /\ \A j \in k..(n - 1) : s[j] # c
    ELSE 0

\* Text t occurs in s at offset p (0-based).
OccursAt(s, t, p) == p + Len(t) <= Len(s) /\ SubSeq(s, p + 1, p + Len(t)) = t

Contains(s, t) == \E p \in 0..Len(s) : OccursAt(s, t, p)

\* s split at every character c.
RECURSIVE Split(_, _)
Split(s, c) ==
    LET n == IndexFrom(s, c, 1)
    IN  IF n = 0 THEN <<s>> ELSE <<SubSeq(s, 1, n - 1)>> \o Split(SubSeq(s, n + 1, Len(s)), c)

\* s without its leading and trailing blanks.
RECURSIVE Trim(_)
Trim(s) ==
    CASE Len(s) > 0 /\ s[1] \in BlankChars -> Trim(Tail(s))
      [] Len(s) > 0 /\ s[Len(s)] \in BlankChars -> Trim(SubSeq(s, 1, Len(s) - 1))
      [] OTHER -> s

\* An integer lexeme: an optional '-' and then decimal digits.
IsIntegerLexeme(s) ==
    LET d == IF Len(s) > 0 /\ s[1] = "-" THEN Tail(s) ELSE s
    IN  Len(d) > 0 /\ \A n \in 1..Len(d) : d[n] \in DigitChars

\* The first two double quotes of a line, the text between them, and the text after.
OpenQuote(l) == IndexFrom(l, "\"", 1)

CloseQuote(l) == IF OpenQuote(l) = 0 THEN 0 ELSE IndexFrom(l, "\"", OpenQuote(l) + 1)

QuotedPayload(l) == SubSeq(l, OpenQuote(l) + 1, CloseQuote(l) - 1)

\* What follows the quoted string, split at the commas: the first piece is what
\* stands between the closing quote and the first comma.
StabsFields(l) == Split(SubSeq(l, CloseQuote(l) + 1, Len(l)), ",")

\* What follows the first `.stabd`, split at the commas.
StabdFields(l) ==
    LET tok == <<".", "s", "t", "a", "b", "d">>
        p == CHOOSE q \in 0..Len(l) : OccursAt(l, tok, q) /\ \A j \in 0..(q - 1) : ~OccursAt(l, tok, j)
    IN  Split(SubSeq(l, p + Len(tok) + 1, Len(l)), ",")

\* The node under the stabs_directive (stabd_directive) node of an accepted line.
Inner == root.children[1].children[1]

\* Every node of the tree below (and including) node n.
RECURSIVE NodesOf(_)
NodesOf(n) == {n} \cup UNION {NodesOf(n.children[k]) : k \in 1..Len(n.children)}

TextOf(n) == SubSeq(line, n.b + 1, n.e)

TopLevelRules == <<instruction, label, stabs_directive, stabd_directive>>

TopLevelKinds == <<"instruction", "label", "stabs_directive", "stabd_directive">>

(***************************************************************************)
(* C1: a line the top-level rule does not match is reported as a non-match *)
(* (no tree, no output) and the loop goes on with the following lines; it  *)
(* never ends the program.                                                 *)
(***************************************************************************)
C1_MismatchIsRecoverable ==
    (i > 0 /\ pc # "parse"
       /\ ~FullMatch(sor(<<instruction, label, stabs_directive, stabd_directive>>), line))
    => (pc \in {"loop", "done"} /\ root = NoTree /\ out = <<>>)

(***************************************************************************)
(* C2, as stated: a line on which stabs_directive matches through the end  *)
(* of input is classified as a stabs directive, one on which               *)
(* stabd_directive (and not stabs_directive) does is classified as a stabd *)
(* directive, and an accepted line has exactly one kind.                   *)
(***************************************************************************)
C2_DispatchOfTwo ==
    ParsedLine =>
        /\ FullMatch(stabs_directive, line) => ClassifiedAs("stabs_directive")
        /\ (FullMatch(stabd_directive, line) /\ ~FullMatch(stabs_directive, line))
               => ClassifiedAs("stabd_directive")
        /\ AcceptedLine => Len(root.children) = 1

(***************************************************************************)
(* C2, amended: the dispatch is the ordered choice of instruction, label,  *)
(* stabs_directive and stabd_directive, then end of input.  A line is      *)
(* accepted exactly when the first of the four that matches at the line    *)
(* start ends at the end of input, and it is classified as that one kind;  *)
(* so a stabs (stabd) directive is classified as such when no earlier      *)
(* alternative matches at the line start.                                  *)
(***************************************************************************)
C2_DispatchOfFour ==
    ParsedLine =>
        LET k == FirstStarting(TopLevelRules, line)
        IN  IF k # 0 /\ FullMatch(TopLevelRules[k], line)
            THEN ClassifiedAs(TopLevelKinds[k])
            ELSE RejectedLine

\* A stabd line is classified after instruction, label and stabs_directive failed on it.
C2_Witness ==
    /\ ClassifiedAs("stabd_directive")
    /\ FirstStarting(TopLevelRules, line) = 4

(***************************************************************************)
(* C3: the record type selects the payload grammar.  A .stabs line is      *)
(* accepted with record type 128 only if its quoted payload matches lsym   *)
(* in full, with 132 only if the payload is a file path, a .stabd line     *)
(* only with 68; and a line that fails the 128 shape after its prefix was  *)
(* consumed is still tried, from the line start, against the 132 shape.    *)
(***************************************************************************)
IsFilePath(s) == \A n \in 1..Len(s) : s[n] \in AlnumChars \cup {"-", "_", "/", "."}

C3_RecordTypeSelectsPayload ==
    /\ ClassifiedAs("stabs_directive") =>
           LET rt == Trim(StabsFields(line)[2])
               pl == QuotedPayload(line)
           IN  \/ rt = <<"1", "2", "8">> /\ FullMatch(lsym, pl) /\ Inner.type # "include_file"
               \/ rt = <<"1", "3", "2">> /\ IsFilePath(pl) /\ Inner.type = "include_file"
    /\ ClassifiedAs("stabd_directive") => Trim(StabdFields(line)[1]) = <<"6", "8">>
    /\ (ParsedLine /\ FirstStarting(TopLevelRules, line) = 3
          /\ ~StartsWith(stabs_directive_lsym, line)
          /\ FullMatch(stabs_directive_include_file, line))
       => (ClassifiedAs("stabs_directive") /\ Inner.type = "include_file" /\ Inner.b = OpenQuote(line))

\* An include-file line with a listing prefix: the 128 shape consumed the prefix,
\* failed, and the 132 shape matched from the line start.
C3_Witness ==
    /\ ClassifiedAs("stabs_directive")
    /\ Inner.type = "include_file"
    /\ Inner.b > Len(StabsToken) + 1
    /\ Inner.e > Inner.b

(***************************************************************************)
(* C8: an accepted .stabs line has, after its quoted string, exactly four  *)
(* comma-separated fields of which recordType, other and desc are integer  *)
(* lexemes; an accepted .stabd line has exactly three comma-separated      *)
(* integer fields; blanks may surround each comma.                         *)
(***************************************************************************)
C8_FieldShape ==
    /\ ClassifiedAs("stabs_directive") =>
           LET f == StabsFields(line)
           IN  /\ Len(f) = 5
               /\ Trim(f[1]) = <<>>
               /\ \A n \in 2..4 : IsIntegerLexeme(Trim(f[n]))
    /\ ClassifiedAs("stabd_directive") =>
           LET f == StabdFields(line)
           IN  /\ Len(f) = 3
               /\ \A n \in 1..3 : IsIntegerLexeme(Trim(f[n]))

(***************************************************************************)
(* C4: ordered choice commits to the first alternative that succeeds.  The *)
(* payload of an accepted 128 line is classified as the first of (struct,  *)
(* array, enum, type def, variable) that matches at the payload start, and *)
(* that alternative ends at the closing quote; a type_ref is a pointer def *)
(* whenever pointer_def matches at its start, a bare id otherwise; a line  *)
(* whose first matching alternative ends at the closing quote and whose    *)
(* fields are well formed is accepted as that alternative; `p:25=*7` is a  *)
(* variable whose type ref is the pointer def of id 25 to ref id 7.        *)
(***************************************************************************)
LsymRules == <<struct_, array, enum_, type_def, variable>>

LsymKinds == <<"struct_", "array", "enum_", "type_def", "variable">>

Is128Line == ClassifiedAs("stabs_directive") /\ Trim(StabsFields(line)[2]) = <<"1", "2", "8">>

\* A line made of a listing prefix, `.stabs`, the quoted payload pl and well-formed fields.
HasPlainShape(l, pl) ==
    \E pre \in Prefixes :
        l = pre \o StabsToken \o DQ \o pl \o DQ \o <<",", "1", "2", "8", ",", "0", ",", "0", ",", "0">>

PointerExample == <<"p", ":", "2", "5", "=", "*", "7">>

C4_OrderedChoiceCommits ==
    /\ Is128Line =>
           LET pl == QuotedPayload(line)
               k == FirstStarting(LsymRules, pl)
           IN  k # 0 /\ Inner.type = LsymKinds[k] /\ FullMatch(LsymRules[k], pl)
    /\ AcceptedLine =>
           \A n \in NodesOf(root) :
               n.type = "type_ref" =>
                   /\ Len(n.children) = 1
                   /\ n.children[1].type =
                          IF StartsWith(pointer_def, SubSeq(line, n.b + 1, Len(line)))
                          THEN "pointer_def" ELSE "type_ref_id"
    /\ ParsedLine =>
           \A pl \in Payloads :
               LET k == FirstStarting(LsymRules, pl)
               IN  (HasPlainShape(line, pl) /\ k # 0 /\ FullMatch(LsymRules[k], pl))
                       => (Is128Line /\ Inner.type = LsymKinds[k])
    /\ (ParsedLine /\ HasPlainShape(line, PointerExample)) =>
           /\ Is128Line
           /\ Inner.type = "variable"
           /\ Len(Inner.children) = 2
           /\ Inner.children[2].type = "type_ref"
           /\ LET pd == Inner.children[2].children[1]
              IN  /\ pd.type = "pointer_def"
                  /\ Len(pd.children) = 2
                  /\ pd.children[1].type = "pointer_def_id" /\ TextOf(pd.children[1]) = <<"2", "5">>
                  /\ pd.children[2].type = "pointer_ref_id" /\ TextOf(pd.children[2]) = <<"7">>

\* The pointer example has been parsed.
C4_Witness ==
    /\ AcceptedLine
    /\ HasPlainShape(line, PointerExample)
    /\ \E n \in NodesOf(root) : n.type = "pointer_def"

(***************************************************************************)
(* C5: a failed rule leaves nothing behind.  The tree of an accepted array *)
(* payload of n dimension records holds exactly n array_type_id /          *)
(* array_max_index pairs, outer to inner, and then the terminal type ref,  *)
(* which starts right after the last record (the failed attempt at one     *)
(* more record added no node and moved no cursor); the tree of a payload   *)
(* holds only nodes of the alternative that matched, and that node starts  *)
(* at the payload start and ends at its end; a rejected line leaves no     *)
(* tree and no output.                                                     *)
(***************************************************************************)
TypeRefFamily == {"type_ref", "type_ref_id", "pointer_def", "pointer_def_id", "pointer_ref_id"}

Family(kind) ==
    CASE kind = "struct_" ->
           {"struct_", "struct_name", "struct_id", "struct_byte_size", "struct_member",
            "struct_member_name", "struct_member_bit_offset", "struct_member_bit_size"}
           \cup TypeRefFamily
      [] kind = "array" ->
           {"array", "array_name", "array_type_id", "array_max_index"} \cup TypeRefFamily
      [] kind = "enum_" -> {"enum_", "enum_name", "enum_id", "enum_value_id", "enum_value_num"}
      [] kind = "type_def" ->
           {"type_def", "type_def_name", "type_def_id", "type_def_range_lower_bound",
            "type_def_range_upper_bound"}
      [] kind = "variable" -> {"variable", "variable_name"} \cup TypeRefFamily
      [] kind = "include_file" -> {"include_file"}
      [] OTHER -> {}

ArrayTerminals == {<<"7">>, <<"3", "0", "=", "*", "7">>}

C5_FailedRuleLeavesNothing ==
    /\ Is128Line =>
           \A n \in 1..MaxDims, term \in ArrayTerminals :
               QuotedPayload(line) = <<"c", ":">> \o ArrayDimsText(1, n) \o term =>
                   LET cs == Inner.children
                   IN  /\ Inner.type = "array"
                       /\ Len(cs) = 2 * n + 2
                       /\ cs[1].type = "array_name"
                       /\ \A j \in 1..n :
                              /\ cs[2 * j].type = "array_type_id"
                              /\ TextOf(cs[2 * j]) = to_string(24 + j)
                              /\ cs[2 * j + 1].type = "array_max_index"
                              /\ TextOf(cs[2 * j + 1]) = to_string(8 + j)
                       /\ cs[2 * n + 2].type = "type_ref"
                       /\ TextOf(cs[2 * n + 2]) = term
                       /\ cs[2 * n + 2].b = cs[2 * n + 1].e + 1
    /\ ClassifiedAs("stabs_directive") =>
           /\ {n.type : n \in NodesOf(Inner)} \subseteq Family(Inner.type)
           /\ Inner.b = OpenQuote(line)
           /\ Inner.e = CloseQuote(line) - 1
    /\ RejectedLine => (root = NoTree /\ out = <<>>)

\* A two-dimensional array has been parsed: the third attempt at a dimension
\* record consumed the digits of the terminal type ref and failed.
C5_Witness ==
    /\ Is128Line
    /\ Inner.type = "array"
    /\ Cardinality({n \in NodesOf(Inner) : n.type = "array_max_index"}) = 2

(***************************************************************************)
(* C6: the shape of the tree of an accepted line.  The root has no         *)
(* content; every other node has a selected tag and carries exactly the    *)
(* text its rule matches at the node's start; no node stands for lsym,     *)
(* type_def_range or type_def_range_def_id; the parent of a node is the    *)
(* nearest enclosing selected rule of the grammar; children lie inside     *)
(* their parent, in textual order; a type def keeps its name and id, and   *)
(* the two bounds when a range is present.                                 *)
(***************************************************************************)
RuleNamed(t) ==
    CASE t = "stabd_directive" -> stabd_directive
      [] t = "stabs_directive" -> stabs_directive
      [] t = "array" -> array
      [] t = "array_name" -> array_name
      [] t = "array_type_id" -> array_type_id
      [] t = "array_max_index" -> array_max_index
      [] t = "type_def" -> type_def
      [] t = "type_def_name" -> type_def_name
      [] t = "type_def_id" -> type_def_id
      [] t = "type_def_range_lower_bound" -> type_def_range_lower_bound
      [] t = "type_def_range_upper_bound" -> type_def_range_upper_bound
      [] t = "variable" -> variable
      [] t = "type_ref" -> type_ref
      [] t = "variable_name" -> variable_name
      [] t = "type_ref_id" -> type_ref_id
      [] t = "pointer_def" -> pointer_def
      [] t = "pointer_def_id" -> pointer_def_id
      [] t = "pointer_ref_id" -> pointer_ref_id
      [] t = "enum_" -> enum_
      [] t = "enum_name" -> enum_name
      [] t = "enum_id" -> enum_id
      [] t = "enum_value_id" -> enum_value_id
      [] t = "enum_value_num" -> enum_value_num
      [] t = "struct_" -> struct_
      [] t = "struct_name" -> struct_name
      [] t = "struct_id" -> struct_id
      [] t = "struct_byte_size" -> struct_byte_size
      [] t = "struct_member_name" -> struct_member_name
      [] t = "struct_member_bit_offset" -> struct_member_bit_offset
      [] t = "struct_member_bit_size" -> struct_member_bit_size
      [] t = "struct_member" -> struct_member
      [] t = "instruction" -> instruction
      [] t = "instr_address" -> instr_address
      [] t = "label" -> label
      [] t = "label_address" -> label_address
      [] t = "label_name" -> label_name
      [] t = "include_file" -> include_file
      [] t = "source_current_line" -> source_current_line

\* The selected rules the grammar nests directly (through rules that are not
\* selected) inside each selected rule; "" is the root.
ParentsOf(t) ==
    CASE t \in {"stabs_directive", "stabd_directive", "instruction", "label"} -> {""}
      [] t \in {"struct_", "array", "enum_", "type_def", "variable", "include_file"} ->
           {"stabs_directive"}
      [] t = "source_current_line" -> {"stabd_directive"}
      [] t \in {"array_name", "array_type_id", "array_max_index"} -> {"array"}
      [] t = "variable_name" -> {"variable"}
      [] t = "type_ref" -> {"variable", "array", "struct_member"}
      [] t \in {"pointer_def", "type_ref_id"} -> {"type_ref"}
      [] t \in {"pointer_def_id", "pointer_ref_id"} -> {"pointer_def"}
      [] t \in {"type_def_name", "type_def_id", "type_def_range_lower_bound",
                "type_def_range_upper_bound"} -> {"type_def"}
      [] t \in {"enum_name", "enum_id", "enum_value_id", "enum_value_num"} -> {"enum_"}
      [] t \in {"struct_name", "struct_id", "struct_byte_size", "struct_member"} -> {"struct_"}
      [] t \in {"struct_member_name", "struct_member_bit_offset", "struct_member_bit_size"} ->
           {"struct_member"}
      [] t = "instr_address" -> {"instruction"}
      [] t \in {"label_address", "label_name"} -> {"label"}
      [] OTHER -> {}

C6_TreeShape ==
    AcceptedLine =>
        /\ root.type = "" /\ ~root.has_content
        /\ \A n \in NodesOf(root) \ {root} :
               /\ n.has_content
               /\ ParentsOf(n.type) # {}
               /\ n.type \notin {"lsym", "type_def_range", "type_def_range_def_id"}
               /\ LET m == Match(RuleNamed(n.type), line, n.b)
                  IN  m.st = "ok" /\ m.pos = n.e
        /\ \A n \in NodesOf(root) :
               \A k \in 1..Len(n.children) :
                   LET c == n.children[k]
                   IN  /\ n.type \in ParentsOf(c.type)
                       /\ n # root => (n.b <= c.b /\ c.e <= n.e)
                       /\ k > 1 => n.children[k - 1].e <= c.b
        /\ \A n \in NodesOf(root) :
               n.type = "type_def" =>
                   LET types == [k \in 1..Len(n.children) |-> n.children[k].type]
                   IN  IF IndexFrom(TextOf(n), "=", 1) # 0
                       THEN types = <<"type_def_name", "type_def_id",
                                      "type_def_range_lower_bound",
                                      "type_def_range_upper_bound">>
                       ELSE types = <<"type_def_name", "type_def_id">>

\* A type def with a range: type_def_range and type_def_range_def_id matched and
\* are not selected, the bounds inside them are.
C6_Witness ==
    /\ AcceptedLine
    /\ \E n \in NodesOf(root) : n.type = "type_def" /\ Len(n.children) = 4

(***************************************************************************)
(* The dump the properties expect: one line per node below the root, depth *)
(* first and left to right, each an indent of `width` spaces per level of  *)
(* depth (the root's children at depth 0), the tag, `: `, and the matched  *)
(* text between backticks; then the empty line that ends the dump.         *)
(***************************************************************************)
RECURSIVE Blanks(_)
Blanks(n) == IF n <= 0 THEN <<>> ELSE Append(Blanks(n - 1), " ")

RECURSIVE DumpOfChildren(_, _, _, _)
DumpOfChildren(n, k, depth, width) ==
    IF k > Len(n.children) THEN <<>>
    ELSE LET c == n.children[k]
         IN  Blanks(width * depth) \o <<c.type, ": ", Backtick>> \o TextOf(c) \o <<Backtick, "\n">>
             \o DumpOfChildren(c, 1, depth + 1, width)
             \o DumpOfChildren(n, k + 1, depth, width)

PrintedLine == pc \in {"loop", "done"} /\ out # <<>>

(***************************************************************************)
(* C7, as stated: the dump has one line per retained node, depth first and *)
(* left to right, indented by two spaces per level of depth.               *)
(***************************************************************************)
C7_DumpTwoSpaces == PrintedLine => out = DumpOfChildren(root, 1, 0, 2) \o <<"\n">>

(***************************************************************************)
(* C7, amended: the dump has one line per retained node, depth first and   *)
(* left to right, indented by one space per level of depth (the root is    *)
(* not printed, its children are at depth 0), then the tag, `: ` and the   *)
(* matched text between backticks; an empty line ends the dump.            *)
(***************************************************************************)
C7_DumpOneSpace == PrintedLine => out = DumpOfChildren(root, 1, 0, 1) \o <<"\n">>

\* A tree with nodes at depth 2 has been printed.
C7_Witness ==
    /\ PrintedLine
    /\ Len(root.children) = 1
    /\ Len(Inner.children) > 0

(***************************************************************************)
(* C9, as stated: for a type def with a range, "=r", the value of the ref  *)
(* id, ";", the value of the lower bound, ";", the value of the upper      *)
(* bound and ";" make up exactly the text type_def_range consumed.         *)
(***************************************************************************)
HasTypeDefRange == AcceptedLine /\ Is128Line /\ Inner.type = "type_def" /\ Len(Inner.children) = 4

\* The text type_def_range consumed: it starts where type_def_id ended.
RangeStart == Inner.children[2].e

RangeText == SubSeq(line, RangeStart + 1, Match(type_def_range, line, RangeStart).pos)

RangeRefIdText ==
    SubSeq(line, RangeStart + 3, Match(type_def_range_def_id, line, RangeStart + 2).pos)

ChildOfType(n, t) == CHOOSE c \in {n.children[k] : k \in 1..Len(n.children)} : c.type = t

RangeLowerText == TextOf(ChildOfType(Inner, "type_def_range_lower_bound"))

RangeUpperText == TextOf(ChildOfType(Inner, "type_def_range_upper_bound"))

RangeRebuilt ==
    <<"=", "r">> \o to_string(stoi(RangeRefIdText).value) \o <<";">>
    \o to_string(stoi(RangeLowerText).value) \o <<";">>
    \o to_string(stoi(RangeUpperText).value) \o <<";">>

C9_RangeRoundTrip ==
    HasTypeDefRange =>
        /\ \A t \in {RangeRefIdText, RangeLowerText, RangeUpperText} : ~stoi(t).thrown
        /\ RangeRebuilt = RangeText

(***************************************************************************)
(* C9, amended: the round trip holds for a type def whose range is written *)
(* with a lower-case r and whose ref id, lower bound and upper bound are   *)
(* in canonical decimal form (no leading zero, no negative zero) of at     *)
(* most nine digits, which stoi converts without overflow.                 *)
(***************************************************************************)
IsCanonical(t) ==
    LET d == IF Len(t) > 0 /\ t[1] = "-" THEN Tail(t) ELSE t
    IN  /\ IsIntegerLexeme(t)
        /\ d[1] = "0" => t = <<"0">>
        /\ Len(d) <= 9

C9_RangeRoundTripCanonical ==
    (HasTypeDefRange
       /\ line[RangeStart + 2] = "r"
       /\ \A t \in {RangeRefIdText, RangeLowerText, RangeUpperText} : IsCanonical(t))
    => (/\ \A t \in {RangeRefIdText, RangeLowerText, RangeUpperText} : ~stoi(t).thrown
        /\ RangeRebuilt = RangeText)

\* A canonical range with a negative bound has been parsed.
C9_Witness ==
    /\ HasTypeDefRange
    /\ line[RangeStart + 2] = "r"
    /\ \A t \in {RangeRefIdText, RangeLowerText, RangeUpperText} : IsCanonical(t)
    /\ RangeLowerText[1] = "-"

(***************************************************************************)
(* C10: parsing terminates.  No parse hangs; the scan for `.stabs` or      *)
(* `.stabd` fails on a line that does not hold the token; the body of      *)
(* every star and plus of the grammar consumes at least one character      *)
(* whenever it matches, at every position of every line; and the self-     *)
(* referential range of `char:t13=r13;0;255;` is matched as a type def.    *)
(***************************************************************************)
\* The bodies of the star and plus rules inside rule value r.
RECURSIVE RepetitionBodies(_)
RepetitionBodies(r) ==
    CASE r.k \in {"star", "plus"} -> {r.r} \cup RepetitionBodies(r.r)
      [] r.k \in {"opt", "not_at", "until", "must", "rule"} -> RepetitionBodies(r.r)
      [] r.k \in {"seq", "sor"} -> UNION {RepetitionBodies(r.rs[k]) : k \in 1..Len(r.rs)}
      [] OTHER -> {}

GrammarRepetitionBodies == RepetitionBodies(grammar)

SelfReferenceExample == <<"c", "h", "a", "r", ":", "t", "1", "3", "=", "r", "1", "3", ";", "0", ";", "2", "5", "5", ";">>

C10_ParsingTerminates ==
    /\ pc # "hung"
    /\ ParsedLine =>
           /\ ~Contains(line, str_stabs.r.s) => Match(stabs_directive_prefix, line, 0).st = "fail"
           /\ ~Contains(line, str_stabd.r.s) => Match(stabd_directive_prefix, line, 0).st = "fail"
           /\ \A body \in GrammarRepetitionBodies, p \in 0..Len(line) :
                  LET m == Match(body, line, p)
                  IN  m.st \in {"ok", "fail"} /\ (m.st = "ok" => m.pos > p)
    /\ (ParsedLine /\ HasPlainShape(line, SelfReferenceExample)) =>
           (Is128Line /\ Inner.type = "type_def" /\ Len(Inner.children) = 4)

\* A line without either token has been scanned to its end and rejected.
C10_Witness ==
    /\ RejectedLine
    /\ Len(line) > 0
    /\ ~Contains(line, str_stabs.r.s)
    /\ ~Contains(line, str_stabd.r.s)

====
